---- MODULE Spec2Model ----
(***************************************************************************)
(* Model of delineate_watershed.py: the flow table is turned into a        *)
(* networkx DiGraph, the area upstream of every gage is computed with      *)
(* nx.ancestors and merged from the catchment polygons, and the result is  *)
(* written with write_geodatabase.                                         *)
(***************************************************************************)
EXTENDS Integers, Sequences, FiniteSets, TLC

VARIABLES
    pc,          \* position of the script / of the call under study
    flowtable,   \* rows [comid, tocomid] of the ENHD flow table (line 116)
    G,           \* the DiGraph: [node : set of ids, edge : set of <<u, v>>]
    catchments,  \* rows [COMID, geometry] of the catchment layer (line 112)
    source_comid,\* argument of the running call (line 151)
    bfs,         \* state of the traversal inside nx.ancestors (line 21)
    result,      \* value returned by the call under study
    watersheds,  \* rows of the watersheds geodataframe (lines 144-152)
    i,           \* index of the batch loop (line 150)
    gdf,         \* geometry column of the frame given to write_geodatabase (line 27)
    polygons_as_points \* flag given to write_geodatabase (line 27)

vars == <<pc, flowtable, G, catchments, source_comid, bfs, result, watersheds, i,
          gdf, polygons_as_points>>

inputs == <<flowtable, catchments>>

batch == <<watersheds, i>>

output == <<gdf, polygons_as_points>>

----------------------------------------------------------------------------
(* Bounds of the model *)

MaxComid == 3

MaxRows == 2

MaxCatchment == 2

MaxStations == 2

MaxFeatures == 3

(* tocomid value of a terminal flow (line 128) *)
Sentinel == 0

COMIDS == 0..MaxComid

----------------------------------------------------------------------------
(* Generic helpers *)

Range(s) == {s[k] : k \in DOMAIN s}

Min(S) == CHOOSE x \in S : \A y \in S : x <= y

RECURSIVE SortedSeq(_)
(* the elements of a finite set of integers in ascending order *)
SortedSeq(S) == IF S = {} THEN << >> ELSE <<Min(S)>> \o SortedSeq(S \ {Min(S)})

NoneBfs == [seen |-> {}, queue |-> << >>, yielded |-> << >>, expanded |-> << >>]

NoResult == [kind |-> "none"]

----------------------------------------------------------------------------
(* The flow table.  Rows are enumerated in nondecreasing (comid, tocomid)  *)
(* order: a DiGraph keeps nodes and adjacency in dicts, so its node and    *)
(* edge sets depend only on which rows occur, and with this order the      *)
(* predecessors of a node are inserted in ascending order of comid.        *)

RowKey(r) == r.comid * (MaxComid + 1) + r.tocomid

FlowRows == [comid : COMIDS, tocomid : COMIDS]

IsSorted(t) == \A k \in 1..(Len(t) - 1) : RowKey(t[k]) <= RowKey(t[k + 1])

(* flowtable = pd.read_parquet(ENHD_path) (line 116): any table within the bounds *)
read_parquet(t) ==
    \E n \in 0..MaxRows : \E ft \in [1..n -> FlowRows] : IsSorted(ft) /\ t = ft

----------------------------------------------------------------------------
(* REPRESENT FLOW NETWORK AS DIRECTED GRAPH (lines 119-130) *)

(* nx.DiGraph() *)
DiGraph == [node |-> {}, edge |-> {}]

(* G.add_nodes_from(column) *)
add_nodes_from(g, column) == [g EXCEPT !.node = @ \cup Range(column)]

(* flowtable['tocomid'] == 0 *)
terminal_flows(ft) == [k \in DOMAIN ft |-> ft[k].tocomid = Sentinel]

RECURSIVE FilterRows(_, _, _)
FilterRows(ft, mask, k) ==
    IF k > Len(ft) THEN << >>
    ELSE (IF mask[k] THEN << >> ELSE << <<ft[k].comid, ft[k].tocomid>> >>)
         \o FilterRows(ft, mask, k + 1)

(* mutation: the terminal flows are not excluded *)
edges_all(ft) == [k \in DOMAIN ft |-> <<ft[k].comid, ft[k].tocomid>>]

(* [tuple(x) for x in flowtable[~terminal_flows][['comid','tocomid']]] *)
edges(ft) == FilterRows(ft, terminal_flows(ft), 1)

(* mutation: an edge is stored without registering its endpoints *)
add_edges_only(g, ebunch) == [g EXCEPT !.edge = @ \cup Range(ebunch)]

(* G.add_edges_from(ebunch): DiGraph.add_edges_from creates both endpoints *)
(* of every edge when they are missing, then stores the edge; an edge that *)
(* is already there is overwritten, not duplicated.                        *)
add_edges_from(g, ebunch) ==
    [node |-> g.node \cup {e[1] : e \in Range(ebunch)} \cup {e[2] : e \in Range(ebunch)},
     edge |-> g.edge \cup Range(ebunch)]

column_comid(ft) == [k \in DOMAIN ft |-> ft[k].comid]

NewGraph ==
    /\ pc = "loaded"
    /\ G' = DiGraph
    /\ pc' = "graph"
    /\ UNCHANGED <<inputs, source_comid, bfs, result, batch, output>>

AddNodes ==
    /\ pc = "graph"
    /\ G' = add_nodes_from(G, column_comid(flowtable))
    /\ pc' = "nodes"
    /\ UNCHANGED <<inputs, source_comid, bfs, result, batch, output>>

AddEdges ==
    /\ pc = "nodes"
    /\ G' = add_edges_from(G, edges(flowtable))
    /\ pc' = "built"
    /\ UNCHANGED <<inputs, source_comid, bfs, result, batch, output>>

----------------------------------------------------------------------------
(* nx.ancestors(G, source) (line 21): a breadth-first traversal over       *)
(* G.predecessors that starts with seen = {source} and yields every node   *)
(* the first time it is met.                                               *)

predecessors(g, n) == {e[1] : e \in {d \in g.edge : d[2] = n}}

has_node(g, n) == n \in g.node

(* mutation: the source is not marked as seen at the start *)
bfs_start_unseen(s) ==
    [seen |-> {}, queue |-> <<s>>, yielded |-> << >>, expanded |-> << >>]

bfs_start(s) ==
    [seen |-> {s}, queue |-> <<s>>, yielded |-> << >>, expanded |-> << >>]

(* mutation: children are queued without looking at the seen set *)
bfs_expand_unchecked(g, st) ==
    LET parent == Head(st.queue)
        new    == SortedSeq(predecessors(g, parent))
    IN  [seen     |-> st.seen \cup Range(new),
         queue    |-> Tail(st.queue) \o new,
         yielded  |-> st.yielded \o new,
         expanded |-> Append(st.expanded, parent)]

(* mutation: the children are yielded but never expanded themselves *)
bfs_expand_shallow(g, st) ==
    LET parent == Head(st.queue)
        new    == SortedSeq(predecessors(g, parent) \ st.seen)
    IN  [seen     |-> st.seen \cup Range(new),
         queue    |-> Tail(st.queue),
         yielded  |-> st.yielded \o new,
         expanded |-> Append(st.expanded, parent)]

(* one expansion: the children of the node at the head of the queue *)
bfs_expand(g, st) ==
    LET parent == Head(st.queue)
        new    == SortedSeq(predecessors(g, parent) \ st.seen)
    IN  [seen     |-> st.seen \cup Range(new),
         queue    |-> Tail(st.queue) \o new,
         yielded  |-> st.yielded \o new,
         expanded |-> Append(st.expanded, parent)]

RECURSIVE bfs_run(_, _)
bfs_run(g, st) == IF st.queue = << >> THEN st ELSE bfs_run(g, bfs_expand(g, st))

(* {child for parent, child in bfs_edges(G, source, reverse=True)} *)
ancestors(g, s) == Range(bfs_run(g, bfs_start(s)).yielded)

(* The call of nx.ancestors taken step by step *)
AncCall ==
    /\ pc = "built"
    /\ \E s \in COMIDS :
          /\ source_comid' = s
          /\ IF has_node(G, s)
             THEN /\ bfs' = bfs_start(s)
                  /\ pc' = "bfs"
                  /\ result' = result
             ELSE /\ bfs' = bfs
                  /\ pc' = "raised"
                  /\ result' = [kind |-> "NetworkXError"]
    /\ UNCHANGED <<inputs, G, batch, output>>

AncExpand ==
    /\ pc = "bfs"
    /\ bfs.queue # << >>
    /\ bfs' = bfs_expand(G, bfs)
    /\ UNCHANGED <<pc, inputs, G, source_comid, result, batch, output>>

AncReturn ==
    /\ pc = "bfs"
    /\ bfs.queue = << >>
    /\ result' = [kind |-> "set", upstream |-> Range(bfs.yielded)]
    /\ pc' = "returned"
    /\ UNCHANGED <<inputs, G, source_comid, bfs, batch, output>>

InitAnc ==
    /\ pc = "loaded"
    /\ read_parquet(flowtable)
    /\ G = DiGraph
    /\ catchments = << >>
    /\ source_comid = Sentinel
    /\ bfs = NoneBfs
    /\ result = NoResult
    /\ watersheds = << >>
    /\ i = 0
    /\ gdf = << >>
    /\ polygons_as_points = FALSE

NextAnc == NewGraph \/ AddNodes \/ AddEdges \/ AncCall \/ AncExpand \/ AncReturn

SpecAnc == InitAnc /\ [][NextAnc]_vars /\ WF_vars(NextAnc)

----------------------------------------------------------------------------
(* Catchment polygons (lines 112-113).  A geometry is the set of atoms it  *)
(* covers: the polygon of catchment c covers the atom c (catchments do not *)
(* overlap) and the point of the k-th station is the atom -k.  Catchments  *)
(* exist for ids 1..MaxCatchment only, so that a node may lack a polygon.  *)

CatchmentIds == 1..MaxCatchment

catchment_rows(S) ==
    [k \in 1..Cardinality(S) |->
        [COMID |-> SortedSeq(S)[k], geometry |-> {SortedSeq(S)[k]}]]

(* catchments = gpd.read_file(NHD_path, layer='Catchment', ...) *)
read_file(c) == \E S \in SUBSET CatchmentIds : c = catchment_rows(S)

column_COMID(c) == [k \in DOMAIN c |-> c[k].COMID]

----------------------------------------------------------------------------
(* get_watershed_boundaries (lines 11-25) *)

(* pd.Series(values).isin(other): one boolean per value *)
isin(values, other) == [k \in DOMAIN values |-> values[k] \in Range(other)]

(* mean of a boolean series as the fraction num/den (0/0 is NaN) *)
mean(flags) ==
    [num |-> Cardinality({k \in DOMAIN flags : flags[k]}), den |-> Len(flags)]

RECURSIVE SelectRows(_, _, _)
(* frame[mask]['geometry']: the geometries of the rows the mask keeps *)
SelectRows(c, mask, k) ==
    IF k > Len(c) THEN << >>
    ELSE (IF mask[k] THEN <<c[k].geometry>> ELSE << >>) \o SelectRows(c, mask, k + 1)

EmptyGeometry == {}

(* mutation: only the first geometry is kept *)
union_all_first(geoms) == IF geoms = << >> THEN EmptyGeometry ELSE geoms[1]

(* GeoSeries.union_all(): the area covered by any of the geometries; of no *)
(* geometry at all it is the empty geometry                                *)
union_all(geoms) == IF geoms = << >> THEN EmptyGeometry ELSE UNION Range(geoms)

(* mutation: the source is left out of the watershed *)
watershed_comids_upstream_only(source, upstream_comids) == upstream_comids

(* [source_comid] + upstream_comids  (line 22) *)
watershed_comids(source, upstream_comids) == <<source>> \o upstream_comids

(* mutation: the matched rows are popped from the catchments frame *)
get_watershed_boundaries_popping(source, g, c) ==
    IF ~has_node(g, source)
    THEN [kind |-> "NetworkXError", G |-> g, catchments |-> c]
    ELSE LET upstream_comids == SortedSeq(ancestors(g, source))
             comids == watershed_comids(source, upstream_comids)
             matched == isin(column_COMID(c), comids)
         IN  [kind |-> "ok",
              watershed_polygon |-> union_all(SelectRows(c, matched, 1)),
              proportion_matched |-> mean(isin(comids, column_COMID(c))),
              G |-> g,
              catchments |-> SelectSeq(c, LAMBDA row : row.COMID \notin Range(comids))]

(* The value returned, with the two arguments passed by reference as the   *)
(* call leaves them.  nx.ancestors raises NetworkXError for a source that  *)
(* is not a node of the graph.  list(set) is taken in ascending order: the *)
(* lines that follow do not depend on the order.                           *)
get_watershed_boundaries(source, g, c) ==
    IF ~has_node(g, source)
    THEN [kind |-> "NetworkXError", G |-> g, catchments |-> c]
    ELSE LET upstream_comids == SortedSeq(ancestors(g, source))
             comids == watershed_comids(source, upstream_comids)
             matched == isin(column_COMID(c), comids)
         IN  [kind |-> "ok",
              watershed_polygon |-> union_all(SelectRows(c, matched, 1)),
              proportion_matched |-> mean(isin(comids, column_COMID(c))),
              G |-> g,
              catchments |-> c]

(* return(watershed_polygon, proportion_matched) (line 25), or the error   *)
(* that left the call                                                      *)
returned(r) ==
    IF r.kind = "ok"
    THEN [kind |-> "ok", watershed_polygon |-> r.watershed_polygon,
          proportion_matched |-> r.proportion_matched]
    ELSE [kind |-> r.kind]

(* One call of get_watershed_boundaries on any source id *)
Delineate ==
    /\ pc = "built"
    /\ \E s \in COMIDS :
          \E r \in {get_watershed_boundaries(s, G, catchments)} :
          /\ source_comid' = s
          /\ result' = returned(r)
          /\ G' = r.G
          /\ catchments' = r.catchments
          /\ pc' = IF r.kind = "ok" THEN "returned" ELSE "raised"
    /\ UNCHANGED <<flowtable, bfs, batch, output>>

InitInputs ==
    /\ pc = "loaded"
    /\ read_parquet(flowtable)
    /\ read_file(catchments)
    /\ G = DiGraph
    /\ source_comid = Sentinel
    /\ bfs = NoneBfs
    /\ result = NoResult
    /\ watersheds = << >>
    /\ i = 0
    /\ gdf = << >>
    /\ polygons_as_points = FALSE

NextDelineate == NewGraph \/ AddNodes \/ AddEdges \/ Delineate

SpecDelineate == InitInputs /\ [][NextDelineate]_vars

----------------------------------------------------------------------------
(* The script from the stations to the end of the loop (lines 132-157) *)

NaN == [num |-> 0, den |-> 0]

(* stations = gpd.sjoin(stations, catchments[['COMID','geometry']],        *)
(* how='inner'); watersheds = stations.copy(); proportion_matched = nan:   *)
(* every station that is kept carries the COMID of a catchment row.        *)
JoinStations ==
    /\ pc = "built"
    /\ \E n \in 0..MaxStations : \E st \in [1..n -> Range(column_COMID(catchments))] :
          watersheds' = [k \in 1..n |->
              [COMID |-> st[k], geometry |-> {0 - k}, proportion_matched |-> NaN]]
    /\ i' = 1
    /\ pc' = "loop"
    /\ UNCHANGED <<inputs, G, source_comid, bfs, result, output>>

(* One iteration of the loop of line 150.  Nothing catches an exception of *)
(* the call, so it ends the script.                                        *)
Iterate ==
    /\ pc = "loop"
    /\ i <= Len(watersheds)
    /\ \E r \in {get_watershed_boundaries(watersheds[i].COMID, G, catchments)} :
          /\ source_comid' = watersheds[i].COMID
          /\ result' = returned(r)
          /\ G' = r.G
          /\ catchments' = r.catchments
          /\ IF r.kind = "ok"
             THEN /\ watersheds' = [watersheds EXCEPT
                         ![i].geometry = r.watershed_polygon,
                         ![i].proportion_matched = r.proportion_matched]
                  /\ i' = i + 1
                  /\ pc' = "loop"
             ELSE /\ watersheds' = watersheds
                  /\ i' = i
                  /\ pc' = "crashed"
    /\ UNCHANGED <<flowtable, bfs, output>>

(* The loop is over: the figure and the output follow *)
Finish ==
    /\ pc = "loop"
    /\ i > Len(watersheds)
    /\ pc' = "done"
    /\ UNCHANGED <<inputs, G, source_comid, bfs, result, batch, output>>

Next == NewGraph \/ AddNodes \/ AddEdges \/ JoinStations \/ Iterate \/ Finish

Spec == InitInputs /\ [][Next]_vars

----------------------------------------------------------------------------
(* write_geodatabase (lines 27-53); gdf is the geometry column, one        *)
(* geometry type per feature.                                              *)

GeomTypes == {"LineString", "MultiPolygon", "Point", "Polygon"}

Polygonal == {"MultiPolygon", "Polygon"}

(* the order list.sort() gives the type names *)
TypeOrder == <<"LineString", "MultiPolygon", "Point", "Polygon">>

RECURSIVE SortedTypes(_, _)
SortedTypes(T, k) ==
    IF k > Len(TypeOrder) THEN << >>
    ELSE (IF TypeOrder[k] \in T THEN <<TypeOrder[k]>> ELSE << >>) \o SortedTypes(T, k + 1)

(* list(gdf['geometry'].geom_type.unique()) followed by sort() *)
geom_types(column) == SortedTypes(Range(column), 1)

(* gdf['geometry'].centroid *)
centroid(column) == [k \in DOMAIN column |-> "Point"]

(* MultiPolygon([feature]) if feature.geom_type == 'Polygon' else feature *)
upcast(column) ==
    [k \in DOMAIN column |-> IF column[k] = "Polygon" THEN "MultiPolygon" ELSE column[k]]

(* lines 38-49: the column that reaches gdf.to_file *)
normalised(column, as_points) ==
    IF as_points
    THEN IF \E x \in Range(geom_types(column)) : x \in Polygonal
         THEN centroid(column) ELSE column
    ELSE IF Len(geom_types(column)) > 1 /\ geom_types(column) = <<"MultiPolygon", "Polygon">>
         THEN upcast(column) ELSE column

write_geodatabase ==
    /\ pc = "call"
    /\ gdf' = normalised(gdf, polygons_as_points)
    /\ pc' = "to_file"
    /\ UNCHANGED <<inputs, G, source_comid, bfs, result, batch, polygons_as_points>>

(* gdf.to_file(..., driver='OpenFileGDB') (line 51): the driver writes the *)
(* layer or refuses it                                                     *)
to_file_written ==
    /\ pc = "to_file"
    /\ pc' = "written"
    /\ UNCHANGED <<inputs, G, source_comid, bfs, result, batch, output>>

to_file_refused ==
    /\ pc = "to_file"
    /\ pc' = "driver_error"
    /\ UNCHANGED <<inputs, G, source_comid, bfs, result, batch, output>>

InitWrite ==
    /\ pc = "call"
    /\ \E n \in 0..MaxFeatures : gdf \in [1..n -> GeomTypes]
    /\ polygons_as_points \in BOOLEAN
    /\ flowtable = << >>
    /\ catchments = << >>
    /\ G = DiGraph
    /\ source_comid = Sentinel
    /\ bfs = NoneBfs
    /\ result = NoResult
    /\ watersheds = << >>
    /\ i = 0

NextWrite == write_geodatabase \/ to_file_written \/ to_file_refused

SpecWrite == InitWrite /\ [][NextWrite]_vars

----------------------------------------------------------------------------
(* Reachability along the edges of the graph, stated without the traversal *)

Successors(g, S) == {e[2] : e \in {d \in g.edge : d[1] \in S}}

RECURSIVE Downstream(_, _)
(* every node that is reached from a node of S by zero or more edges *)
Downstream(g, S) ==
    LET T == S \cup Successors(g, S) IN IF T = S THEN S ELSE Downstream(g, T)

(* s is reached from n by one or more edges *)
Reaches(g, n, s) == s \in Downstream(g, Successors(g, {n}))

Upstream(g, s) == {n \in g.node \ {s} : Reaches(g, n, s)}

NoDuplicates(q) == \A j, k \in DOMAIN q : q[j] = q[k] => j = k

ComidColumn == {flowtable[k].comid : k \in DOMAIN flowtable}

TerminalRows == {k \in DOMAIN flowtable : flowtable[k].tocomid = Sentinel}

----------------------------------------------------------------------------
(* C1: when nx.ancestors returns for a source that is a node of the graph, *)
(* the returned set is exactly the set of nodes other than the source from *)
(* which the source is reached by one or more edges; the source itself is  *)
(* never in it, also on a cycle or with a self-loop, and rows that repeat  *)
(* an edge change nothing.                                                 *)
C1_AncestorsExact ==
    pc = "returned" =>
        /\ result.upstream = Upstream(G, source_comid)
        /\ source_comid \notin result.upstream

(* the call has returned for a source that has a self-loop and an         *)
(* ancestor                                                                *)
C1_Witness ==
    /\ pc = "returned"
    /\ <<source_comid, source_comid>> \in G.edge
    /\ result.upstream # {}
    /\ source_comid \notin result.upstream

ExpandedOnce ==
    /\ NoDuplicates(bfs.expanded)
    /\ NoDuplicates(bfs.yielded)
    /\ pc = "returned" => /\ Range(bfs.yielded) = Upstream(G, source_comid)
                          /\ Range(bfs.expanded) = Range(bfs.yielded) \cup {source_comid}

(* C2: the traversal of nx.ancestors ends, also when the source lies on a  *)
(* cycle; no node is expanded twice and no node is yielded twice, so the   *)
(* result holds every node upstream of the source exactly once.            *)
C2_TerminatesExpandsOnce == [](ExpandedOnce) /\ (pc = "bfs" ~> pc = "returned")

(* the traversal has returned for a source that lies on a cycle of two or  *)
(* more nodes                                                              *)
C2_Witness ==
    /\ pc = "returned"
    /\ Reaches(G, source_comid, source_comid)
    /\ <<source_comid, source_comid>> \notin G.edge
    /\ result.upstream # {}

(* C6 as claimed: after construction no row with tocomid 0 has given an    *)
(* edge, no edge points at 0 and 0 is not a node of the graph.             *)
C6_SentinelNeverNode ==
    pc = "built" =>
        /\ G.edge = {<<flowtable[k].comid, flowtable[k].tocomid>> :
                        k \in DOMAIN flowtable \ TerminalRows}
        /\ \A e \in G.edge : e[2] # Sentinel
        /\ Sentinel \notin G.node

(* C6 amended: after construction the edges are exactly the rows whose     *)
(* tocomid is not 0, no edge points at 0, and 0 is a node exactly when     *)
(* some row has comid 0.                                                   *)
C6_SentinelNeverTarget ==
    pc = "built" =>
        /\ G.edge = {<<flowtable[k].comid, flowtable[k].tocomid>> :
                        k \in DOMAIN flowtable \ TerminalRows}
        /\ \A e \in G.edge : e[2] # Sentinel
        /\ Sentinel \in G.node <=> Sentinel \in ComidColumn

(* a built graph from a table with a terminal row and a non-terminal row   *)
C6_Witness ==
    /\ pc = "built"
    /\ TerminalRows # {}
    /\ G.edge # {}
    /\ Sentinel \notin ComidColumn

(* C8: after construction both endpoints of every edge are nodes, every id *)
(* of the comid column is a node, and an id that occurs only as the target *)
(* of a non-terminal row has been added as a node.                         *)
C8_EndpointsAreNodes ==
    pc = "built" =>
        /\ \A e \in G.edge : e[1] \in G.node /\ e[2] \in G.node
        /\ ComidColumn \subseteq G.node
        /\ \A k \in DOMAIN flowtable \ TerminalRows : flowtable[k].tocomid \in G.node

(* a built graph with a node that is in no edge and a node that is in no   *)
(* row's comid                                                             *)
C8_Witness ==
    /\ pc = "built"
    /\ \E n \in G.node : n \notin ComidColumn
    /\ \E n \in ComidColumn : \A e \in G.edge : e[1] # n /\ e[2] # n

StoreIds == Range(column_COMID(catchments))

(* the ids of the watershed of s: s and everything upstream of it *)
WatershedIds(g, s) == Upstream(g, s) \cup {s}

(* C3: for a source in the graph the match ratio is the number of ids of   *)
(* the watershed (the source and its ancestors) that have a catchment row, *)
(* over the number of ancestors plus one; it lies in [0,1] and is 1        *)
(* exactly when every id of the watershed has a catchment row.             *)
C3_MatchRatio ==
    pc = "returned" =>
        LET W  == WatershedIds(G, source_comid)
            pm == result.proportion_matched
        IN  /\ pm.num = Cardinality(W \cap StoreIds)
            /\ pm.den = Cardinality(Upstream(G, source_comid)) + 1
            /\ 0 <= pm.num /\ pm.num <= pm.den /\ pm.den >= 1
            /\ pm.num = pm.den <=> W \subseteq StoreIds

(* a watershed of three ids of which two have a catchment row: ratio 2/3  *)
C3_Witness ==
    /\ pc = "returned"
    /\ Cardinality(Upstream(G, source_comid)) = 2
    /\ Cardinality(WatershedIds(G, source_comid) \cap StoreIds) = 2
    /\ result.proportion_matched = [num |-> 2, den |-> 3]

(* C4: for a source in the graph the call does not fail; the polygon is    *)
(* the union of the geometries of exactly the catchment rows whose id is   *)
(* in the watershed, and when there is no such row the ratio is 0 and the  *)
(* polygon is the empty geometry.                                          *)
C4_MissingGeometriesTolerated ==
    (pc \in {"returned", "raised"} /\ has_node(G, source_comid)) =>
        LET W == WatershedIds(G, source_comid) IN
        /\ result.kind = "ok"
        /\ result.watershed_polygon =
              UNION {catchments[k].geometry :
                        k \in {j \in DOMAIN catchments : catchments[j].COMID \in W}}
        /\ W \cap StoreIds = {} =>
              /\ result.proportion_matched.num = 0
              /\ result.watershed_polygon = EmptyGeometry

(* a call that returned for a watershed of several ids none of which has a *)
(* catchment row, while other catchment rows exist                         *)
C4_Witness ==
    /\ pc = "returned"
    /\ Upstream(G, source_comid) # {}
    /\ WatershedIds(G, source_comid) \cap StoreIds = {}
    /\ StoreIds # {}
    /\ result.proportion_matched.num = 0
    /\ result.watershed_polygon = EmptyGeometry

(* C10: for every ancestor a of the source b of a finished call, the ids   *)
(* of a's watershed are ids of b's watershed and the polygon computed for  *)
(* a is covered by the polygon computed for b.                             *)
C10_WatershedsNest ==
    pc = "returned" =>
        \A a \in ancestors(G, source_comid) :
            /\ (ancestors(G, a) \cup {a}) \subseteq (ancestors(G, source_comid) \cup {source_comid})
            /\ get_watershed_boundaries(a, G, catchments).watershed_polygon
                  \subseteq result.watershed_polygon

(* a finished call whose source has an ancestor that has ancestors of its  *)
(* own and a smaller, non-empty polygon                                    *)
C10_Witness ==
    /\ pc = "returned"
    /\ \E a \in ancestors(G, source_comid) :
          /\ ancestors(G, a) # {}
          /\ a \notin ancestors(G, a)
          /\ get_watershed_boundaries(a, G, catchments).watershed_polygon # EmptyGeometry
          /\ get_watershed_boundaries(a, G, catchments).watershed_polygon
                # result.watershed_polygon

(* C5 as claimed: a source that is not a node of the graph fails for its   *)
(* own item only, so whenever the script has stopped every query point     *)
(* has been gone through.                                                  *)
C5_BatchContinues == pc \in {"done", "crashed"} => i > Len(watersheds)

FilledRowsDependOnSourceOnly ==
    pc \in {"loop", "done", "crashed"} =>
        \A k \in 1..(i - 1) :
            \A r \in {get_watershed_boundaries(watersheds[k].COMID, G, catchments)} :
            /\ r.kind = "ok"
            /\ watersheds[k].geometry = r.watershed_polygon
            /\ watersheds[k].proportion_matched = r.proportion_matched

(* C9: no step of the loop changes the graph or the catchments, and every  *)
(* row that has been filled holds what get_watershed_boundaries gives for  *)
(* its source on the graph and catchments as they are now, whatever rows   *)
(* were handled before it.                                                 *)
C9_GraphAndStoreUnchanged ==
    /\ [][pc = "loop" => (G' = G /\ catchments' = catchments)]_vars
    /\ [](FilledRowsDependOnSourceOnly)

(* the loop has ended after two query points, the first upstream of the    *)
(* second                                                                  *)
C9_Witness ==
    /\ pc = "done"
    /\ Len(watersheds) = 2
    /\ watersheds[1].COMID \in Upstream(G, watersheds[2].COMID)
    /\ watersheds[1].geometry # watersheds[2].geometry

MixedUnexpected(column) ==
    /\ \E k \in DOMAIN column : column[k] \in Polygonal
    /\ \E k \in DOMAIN column : column[k] \notin Polygonal

(* C7 as claimed: a frame in which a type other than Polygon and           *)
(* MultiPolygon is mixed with polygons never reaches the write.            *)
C7_UnexpectedTypeIsFatal == pc \in {"to_file", "written"} => ~MixedUnexpected(gdf)

====
